---------------------------- MODULE Spec2Model ----------------------------
(***************************************************************************)
(* A model of scripts/pptx_font_audit.py: audit_pptx walks a presentation  *)
(* package (manifest, theme, slide parts) and accumulates typeface request *)
(* counters, missing-typeface counts and style violations into a report.   *)
(*                                                                         *)
(* Strings are sequences of character codes, so that startswith("+"),      *)
(* truthiness of a string, strip/lower and Python's string ordering are    *)
(* computed and not assumed.  An absent value (Python None) is NoneVal.    *)
(***************************************************************************)
EXTENDS Integers, Sequences, FiniteSets, TLC

(***************************************************************************)
(* Bounds of the checked input space.                                      *)
(***************************************************************************)
MaxSlides == 2
MaxRequests == 2
MaxRuns == 2
MaxParas == 2

(***************************************************************************)
(* Values and strings.                                                     *)
(***************************************************************************)
NoneVal == <<-1>>

Truthy(s) == s # NoneVal /\ s # <<>>

Arial == <<65, 114, 105, 97, 108>>
Calibri == <<67, 97, 108, 105, 98, 114, 105>>
ComicSans == <<67, 111, 109, 105, 99, 32, 83, 97, 110, 115>>
TokMinor == <<43, 109, 110, 45, 108, 116>>
TokMajor == <<43, 109, 106, 45, 108, 116>>
TokEa == <<43, 109, 110, 45, 101, 97>>
TextHi == <<72, 105>>

Min(a, b) == IF a <= b THEN a ELSE b

\* Python's str < str: code point by code point, a proper prefix is smaller.
RECURSIVE StrLess(_, _)
StrLess(a, b) ==
    IF b = <<>> THEN FALSE
    ELSE IF a = <<>> THEN TRUE
    ELSE IF a[1] # b[1] THEN a[1] < b[1]
    ELSE StrLess(Tail(a), Tail(b))

\* str.startswith("+")
StartsWithPlus(tf) == Len(tf) >= 1 /\ tf[1] = 43

\* sorted(S) for a set of distinct strings.
RECURSIVE SortedStrings(_)
SortedStrings(S) ==
    IF S = {} THEN <<>>
    ELSE LET m == CHOOSE x \in S : \A y \in S \ {x} : StrLess(x, y)
         IN <<m>> \o SortedStrings(S \ {m})

\* collections.Counter: a function whose domain is the set of keys counted.
EmptyCounter == <<>>

CounterGet(c, k) == IF k \in DOMAIN c THEN c[k] ELSE 0

\* Variant: counter[k] = 1, forgetting the count so far.
CounterOverwrite(c, k) == IF k \in DOMAIN c THEN [c EXCEPT ![k] = 1] ELSE c @@ (k :> 1)

\* counter[k] += 1
CounterInc(c, k) == IF k \in DOMAIN c THEN [c EXCEPT ![k] = @ + 1] ELSE c @@ (k :> 1)


(***************************************************************************)
(* The package.  A part is absent from the archive or has bytes: empty,    *)
(* not well-formed XML, or an XML tree.  A slide tree holds the typeface   *)
(* attributes of its a:latin elements outside text bodies (extra) and its  *)
(* shapes that carry a text body; a paragraph holds the typeface of its    *)
(* pPr/defRPr/latin (def) and endParaRPr/latin (end), NoneVal when the     *)
(* element or the attribute is absent, and its runs; a run holds the       *)
(* typeface of rPr/latin (tf), the b and i attributes of rPr and the text  *)
(* of a:t (t), NoneVal when absent.                                        *)
(***************************************************************************)
NoPart == [kind |-> "none", extra |-> <<>>, shapes |-> <<>>]
EmptyPart == [kind |-> "empty", extra |-> <<>>, shapes |-> <<>>]
MalformedPart == [kind |-> "malformed", extra |-> <<>>, shapes |-> <<>>]
XmlSlide(extra, shapes) == [kind |-> "xml", extra |-> extra, shapes |-> shapes]

SlideHead == "ppt/slides/slide"
LayoutHead == "ppt/slideLayouts/slideLayout"
DotXml == <<46, 120, 109, 108>>

\* _read_zip_entry: the bytes of a part, None on KeyError.
ReadZipEntry(zf, name) == IF name \in DOMAIN zf THEN zf[name] ELSE NoPart

\* Variant: a part that does not parse is passed over like an empty one.
NotBytesNorWellFormed(part) == part.kind \in {"none", "empty", "malformed"}

\* "if not slide_xml" / "if not presentation_xml": None or zero bytes.
NotBytes(part) == part.kind \in {"none", "empty"}

\* _parse_embedded_typefaces: sorted(set(typefaces)) of the p:font elements
\* that carry a non-empty typeface.
ParseEmbeddedTypefaces(presentation) ==
    IF ~presentation.present THEN <<>>
    ELSE LET lst == presentation.embeddedFontLst
         IN SortedStrings({lst[i].font : i \in {j \in 1..Len(lst) : Truthy(lst[j].font)}})

\* _parse_embedded_font_styles: styles[tf] = {...} in document order, a later
\* entry of the same typeface replacing an earlier one.
ParseEmbeddedFontStyles(presentation) ==
    IF ~presentation.present THEN <<>>
    ELSE LET lst == presentation.embeddedFontLst
             idx == {j \in 1..Len(lst) : Truthy(lst[j].font)}
             last(tf) == CHOOSE j \in idx : lst[j].font = tf /\ \A k \in idx : lst[k].font = tf => k <= j
         IN [tf \in {lst[j].font : j \in idx} |->
                [has_regular |-> lst[last(tf)].regular,
                 has_bold |-> lst[last(tf)].bold,
                 has_italic |-> lst[last(tf)].italic,
                 has_boldItalic |-> lst[last(tf)].boldItalic]]

\* _parse_theme_fonts: (major, minor), both None without a theme part.
ParseThemeFonts(theme) ==
    IF ~theme.present THEN [major |-> NoneVal, minor |-> NoneVal]
    ELSE [major |-> theme.major, minor |-> theme.minor]

\* The name filter of _iter_slide_entries.
IsSlideEntry(name) ==
    /\ name.head = SlideHead
    /\ Len(name.rest) >= Len(DotXml)
    /\ SubSeq(name.rest, Len(name.rest) - Len(DotXml) + 1, Len(name.rest)) = DotXml

\* sorted() of part names that share the head "ppt/slides/slide": Python
\* orders them by the rest of the string.
RECURSIVE SortedNames(_)
SortedNames(S) ==
    IF S = {} THEN <<>>
    ELSE LET m == CHOOSE x \in S : \A y \in S \ {x} : StrLess(x.rest, y.rest)
         IN <<m>> \o SortedNames(S \ {m})

IsDigit(c) == c >= 48 /\ c <= 57

RECURSIVE ParseInt(_)
ParseInt(d) == IF d = <<>> THEN 0 ELSE 10 * ParseInt(SubSeq(d, 1, Len(d) - 1)) + (d[Len(d)] - 48)

\* _extract_slide_index: re.search(r"slide(\d+)\.xml$"), int of the digits.
ExtractSlideIndex(name) ==
    LET digits == SubSeq(name.rest, 1, Len(name.rest) - Len(DotXml))
    IN IF IsSlideEntry(name) /\ digits # <<>> /\ \A i \in 1..Len(digits) : IsDigit(digits[i])
       THEN ParseInt(digits)
       ELSE -1    \* None: no match

\* _iter_slide_entries
IterSlideEntries(zf) == SortedNames({n \in DOMAIN zf : IsSlideEntry(n)})

(***************************************************************************)
(* Element helpers of the slide walk.                                      *)
(***************************************************************************)
\* _latin_has_typeface: bool(latin_el.get("typeface")) of a present element.
LatinHasTypeface(tf) == Truthy(tf)

\* _paragraph_has_def_latin / _paragraph_has_end_latin
ParagraphHasDefLatin(p) == LatinHasTypeface(p.def)
ParagraphHasEndLatin(p) == LatinHasTypeface(p.end)

\* _paragraph_has_typeface, and p_has of the paragraph loop.
ParagraphHasTypeface(p) == ParagraphHasDefLatin(p) \/ ParagraphHasEndLatin(p)

\* _run_has_typeface
RunHasTypeface(r) == LatinHasTypeface(r.tf)

\* "t_el is not None and t_el.text"
RunHasText(r) == Truthy(r.t)

IsSpace(c) == c \in {9, 10, 11, 12, 13, 32}

\* str.strip()
RECURSIVE Strip(_)
Strip(s) ==
    IF s = <<>> THEN s
    ELSE IF IsSpace(s[1]) THEN Strip(Tail(s))
    ELSE IF IsSpace(s[Len(s)]) THEN Strip(SubSeq(s, 1, Len(s) - 1))
    ELSE s

\* str.lower() on ASCII
Lower(s) == [i \in 1..Len(s) |-> IF s[i] >= 65 /\ s[i] <= 90 THEN s[i] + 32 ELSE s[i]]

\* {"1", "true", "t", "on", "yes"}
TruthyTokens == {<<49>>, <<116, 114, 117, 101>>, <<116>>, <<111, 110>>, <<121, 101, 115>>}

\* _truthy_attr
TruthyAttr(value) == IF value = NoneVal THEN FALSE ELSE Lower(Strip(value)) \in TruthyTokens

\* Variant: the bold test before the bold-and-italic test.
RequiredStyleNameBoldFirst(is_bold, is_italic) ==
    IF is_bold THEN "bold"
    ELSE IF is_italic THEN "italic"
    ELSE "regular"

\* _required_style_name
RequiredStyleName(is_bold, is_italic) ==
    IF is_bold /\ is_italic THEN "boldItalic"
    ELSE IF is_bold THEN "bold"
    ELSE IF is_italic THEN "italic"
    ELSE "regular"

\* style_flags.get(f"has_{required_style}", False)
HasRequired(style_flags, required_style) ==
    CASE required_style = "regular" -> style_flags.has_regular
      [] required_style = "bold" -> style_flags.has_bold
      [] required_style = "italic" -> style_flags.has_italic
      [] required_style = "boldItalic" -> style_flags.has_boldItalic
      [] OTHER -> FALSE

\* Variant: an entry counts only if it declares a style slot.
StyleFlagsKnownNonEmpty(styles, tf) ==
    /\ tf \in DOMAIN styles
    /\ \E f \in DOMAIN styles[tf] : styles[tf][f]

\* "style_flags = embedded_styles.get(tf); if style_flags:": the entry exists
\* and, being a dict, has keys (bool of a dict is len(d) > 0).
StyleFlagsKnown(styles, tf) ==
    /\ tf \in DOMAIN styles
    /\ DOMAIN styles[tf] # {}

\* The guard chain of lines 324-331: this run appends a violation.
RunViolates(styles, r) ==
    /\ Truthy(r.tf)
    /\ StyleFlagsKnown(styles, r.tf)
    /\ ~HasRequired(styles[r.tf], RequiredStyleName(TruthyAttr(r.b), TruthyAttr(r.i)))

SnippetLen == 40

\* text[:40]
Snippet(text) == SubSeq(text, 1, Min(SnippetLen, Len(text)))

\* Variant: the paragraph's own typeface is not consulted.
RunMissingIgnoringParagraph(r, p_has) == ~RunHasTypeface(r)

\* "if not (r_has or p_has)" of the missing-run loop.
RunMissing(r, p_has) == ~(RunHasTypeface(r) \/ p_has)

\* Variant: the run count is not consulted.
IsEmptyParagraphNoText(run_count, snippet_text) == snippet_text = <<>>

\* is_empty = run_count == 0 and snippet_text == ""
IsEmptyParagraph(run_count, snippet_text) == run_count = 0 /\ snippet_text = <<>>

(***************************************************************************)
(* The raw request scan (lines 285-297), one counter at a time.            *)
(***************************************************************************)
\* requested_counts_raw[tf] += 1 under "if tf".
RawAfter(raw, tf) == IF Truthy(tf) THEN CounterInc(raw, tf) ELSE raw

\* requested_counts_tokens[tf] += 1 under tf.startswith("+").
TokensAfter(tokens, tf) ==
    IF Truthy(tf) /\ StartsWithPlus(tf) THEN CounterInc(tokens, tf) ELSE tokens

\* Variant: the face counter is not in an else branch.
FacesAfterEveryRequest(faces, tf) == IF Truthy(tf) THEN CounterInc(faces, tf) ELSE faces

\* requested_counts_faces[tf] += 1 in the else branch.
FacesAfter(faces, tf) ==
    IF Truthy(tf) /\ ~StartsWithPlus(tf) THEN CounterInc(faces, tf) ELSE faces

\* Variant: both theme tokens resolve through the minor slot.
ResolvedAfterMinorForBoth(resolved, tf, theme_major, theme_minor) ==
    IF ~Truthy(tf) THEN resolved
    ELSE IF StartsWithPlus(tf)
         THEN IF tf \in {TokMinor, TokMajor} /\ Truthy(theme_minor) THEN CounterInc(resolved, theme_minor)
              ELSE resolved
         ELSE CounterInc(resolved, tf)

\* requested_counts_resolved: the theme name of "+mn-lt" / "+mj-lt" when the
\* slot is truthy, the face itself for a literal face.
ResolvedAfter(resolved, tf, theme_major, theme_minor) ==
    IF ~Truthy(tf) THEN resolved
    ELSE IF StartsWithPlus(tf)
         THEN IF tf = TokMinor /\ Truthy(theme_minor) THEN CounterInc(resolved, theme_minor)
              ELSE IF tf = TokMajor /\ Truthy(theme_major) THEN CounterInc(resolved, theme_major)
              ELSE resolved
         ELSE CounterInc(resolved, tf)

(***************************************************************************)
(* Document order of a slide tree.                                         *)
(***************************************************************************)
RECURSIVE Concat(_)
Concat(ss) == IF ss = <<>> THEN <<>> ELSE Head(ss) \o Concat(Tail(ss))

\* The a:latin elements of one paragraph: pPr/defRPr, the runs, endParaRPr.
ParagraphLatins(p) == <<p.def>> \o [k \in 1..Len(p.runs) |-> p.runs[k].tf] \o <<p.end>>

\* root.findall(".//a:latin"): the typeface attribute of every a:latin.
SlideLatins(slide) ==
    slide.extra \o
    Concat([s \in 1..Len(slide.shapes) |->
              Concat([k \in 1..Len(slide.shapes[s].paragraphs) |->
                        ParagraphLatins(slide.shapes[s].paragraphs[k])])])

\* The nested loops over shapes_with_tx and tx_body.findall("a:p"), both
\* enumerated from 1, flattened.
SlideParagraphs(slide) ==
    Concat([s \in 1..Len(slide.shapes) |->
              [k \in 1..Len(slide.shapes[s].paragraphs) |->
                 [shape_idx |-> s,
                  shape_id |-> slide.shapes[s].id,
                  shape_name |-> slide.shapes[s].name,
                  p_idx |-> k,
                  p |-> slide.shapes[s].paragraphs[k]]]])

(***************************************************************************)
(* One paragraph of the paragraph/run scan (lines 308-381).                *)
(***************************************************************************)
\* run_texts joined: "".join(run_texts)
SnippetText(runs) ==
    Concat([k \in 1..Len(runs) |-> IF RunHasText(runs[k]) THEN runs[k].t ELSE <<>>])

\* run_typefaces
RunTypefaces(runs) == {runs[k].tf : k \in {j \in 1..Len(runs) : Truthy(runs[j].tf)}}

\* The violation records this paragraph appends, in run order.
NewViolations(styles, slide_name, e) ==
    LET runs == e.p.runs
        all == [k \in 1..Len(runs) |->
                  [hit |-> RunViolates(styles, runs[k]),
                   rec |-> [slide_file |-> slide_name,
                            shape_id |-> e.shape_id,
                            shape_name |-> e.shape_name,
                            paragraph_index |-> e.p_idx,
                            run_index |-> k,
                            typeface |-> runs[k].tf,
                            bold |-> TruthyAttr(runs[k].b),
                            italic |-> TruthyAttr(runs[k].i),
                            snippet |-> IF RunHasText(runs[k]) THEN Snippet(runs[k].t) ELSE <<>>]]]
        hits == SelectSeq(all, LAMBDA x : x.hit)
    IN [k \in 1..Len(hits) |-> hits[k].rec]

\* unsupported_style_counts[(tf, required_style)] += 1 for each of them.
RECURSIVE CountViolations(_, _)
CountViolations(counts, vs) ==
    IF vs = <<>> THEN counts
    ELSE CountViolations(
            CounterInc(counts, <<Head(vs).typeface, RequiredStyleName(Head(vs).bold, Head(vs).italic)>>),
            Tail(vs))

\* The location record of a missing non-empty paragraph (the xpaths string
\* repeats shape_index and paragraph_index and is left out).
Location(slide_name, e) ==
    [slide_file |-> slide_name,
     slide_index |-> ExtractSlideIndex(slide_name),
     shape_index |-> e.shape_idx,
     shape_id |-> e.shape_id,
     shape_name |-> e.shape_name,
     paragraph_index |-> e.p_idx,
     has_runs |-> Len(e.p.runs) > 0,
     run_count |-> Len(e.p.runs),
     run_typefaces |-> SortedStrings(RunTypefaces(e.p.runs)),
     snippet |-> Snippet(SnippetText(e.p.runs)),
     has_defRPr_latin |-> ParagraphHasDefLatin(e.p),
     has_endParaRPr_latin |-> ParagraphHasEndLatin(e.p)]

\* Variant: a record for every missing paragraph, empty or not.
LocationsAfterEveryMissing(locations, p_has, is_empty, loc) ==
    IF ~p_has THEN Append(locations, loc) ELSE locations

\* missing_paragraph_locations.append(...) in the else branch of "if is_empty",
\* itself under "if not p_has".
LocationsAfter(locations, p_has, is_empty, loc) ==
    IF ~p_has /\ ~is_empty THEN Append(locations, loc) ELSE locations

\* The runs the last loop of the paragraph counts as missing.
MissingRunsOf(p) == {k \in 1..Len(p.runs) : RunMissing(p.runs[k], ParagraphHasTypeface(p))}

(***************************************************************************)
(* The report's sorted views (lines 383-390).                              *)
(***************************************************************************)
\* _counter_to_sorted_dict: the items in the order of key (-count, key).
RECURSIVE SortedItems(_, _)
SortedItems(counter, keys) ==
    IF keys = {} THEN <<>>
    ELSE LET m == CHOOSE x \in keys : \A y \in keys \ {x} :
                     \/ counter[x] > counter[y]
                     \/ counter[x] = counter[y] /\ StrLess(x, y)
         IN <<<<m, counter[m]>>>> \o SortedItems(counter, keys \ {m})

CounterToSortedDict(counter) == SortedItems(counter, DOMAIN counter)

SeqRange(s) == {s[k] : k \in 1..Len(s)}

\* Variant: the embedded set is not subtracted.
UnknownRequestedNoDifference(faces, embedded) == SortedStrings(DOMAIN faces)

\* unknown_requested = sorted(set(faces.keys()) - set(embedded_typefaces))
UnknownRequested(faces, embedded) == SortedStrings(DOMAIN faces \ SeqRange(embedded))

(***************************************************************************)
(* The name sniffer (lines 80-119): strings are read from a font program   *)
(* as runs of UTF-16LE code units with a zero high byte and a printable    *)
(* ASCII low byte.                                                         *)
(***************************************************************************)
\* _extract_utf16le_strings(data, min_len=3, max_items=20)
MinLen == 3
MaxItems == 20
\* _filter_name_strings(strings, max_len=40, max_items=10)
MaxLen == 40
MaxNames == 10

\* hi == 0 and 32 <= lo <= 126
Accepted(lo, hi) == hi = 0 /\ 32 <= lo /\ lo <= 126

\* bytes(current).decode("ascii", errors="ignore"): bytes that are not ASCII
\* are dropped.
IsAscii(b) == b < 128
DecodeAscii(bs) == SelectSeq(bs, IsAscii)

\* Lines 100-106: the first occurrence of each string, in order.
RECURSIVE DedupeFrom(_, _, _)
DedupeFrom(strs, seen, out) ==
    IF strs = <<>> THEN out
    ELSE IF Head(strs) \in seen THEN DedupeFrom(Tail(strs), seen, out)
    ELSE DedupeFrom(Tail(strs), seen \cup {Head(strs)}, Append(out, Head(strs)))

Dedupe(strs) == DedupeFrom(strs, {}, <<>>)

\* str.isalpha on a character of a decoded ASCII string.
IsAlpha(ch) == (65 <= ch /\ ch <= 90) \/ (97 <= ch /\ ch <= 122)

\* Variant: the alphabetic test is dropped.
KeepNameAnyCharacters(str) == ~(Len(str) > MaxLen)

\* Lines 112-115: neither "continue" is taken.
KeepName(str) == ~(Len(str) > MaxLen) /\ \E k \in 1..Len(str) : IsAlpha(str[k])

\* Lines 110-118: the loop of _filter_name_strings, "out" so far.
RECURSIVE FilterFrom(_, _)
FilterFrom(strs, out) ==
    IF strs = <<>> THEN out
    ELSE IF ~KeepName(Head(strs)) THEN FilterFrom(Tail(strs), out)
    ELSE IF Len(out) + 1 >= MaxNames THEN Append(out, Head(strs))
    ELSE FilterFrom(Tail(strs), Append(out, Head(strs)))

\* _filter_name_strings
FilterNameStrings(strs) == FilterFrom(strs, <<>>)

(***************************************************************************)
(* main (lines 433-506): the exit code.                                    *)
(***************************************************************************)
\* Variant: the report is not consulted.
ExitCodeAlwaysZero(unknown) == 0

\* if report["unknown_requested"]: return 2 / return 0
ExitCode(unknown) == IF unknown # <<>> THEN 2 ELSE 0

(***************************************************************************)
(* IconFinderService (servers/fastapi/services/icon_finder_service.py).    *)
(***************************************************************************)
\* os.getenv(name, "").lower() in ("1", "true", "yes")
EnvFlag(value) == Lower(value) \in {<<49>>, <<116, 114, 117, 101>>, <<121, 101, 115>>}

\* __init__, line 25: self.disabled = (not enable) or disable
Disabled(enable_env, disable_env) == ~EnvFlag(enable_env) \/ EnvFlag(disable_env)

\* Variant: a latched error does not stop a new attempt.
EnsureReadyRetrying(is_disabled, is_initialized, error, init_ok) ==
    IF is_disabled
    THEN [ready |-> FALSE, attempted |-> FALSE, initialized |-> is_initialized, error |-> error]
    ELSE IF is_initialized
    THEN [ready |-> TRUE, attempted |-> FALSE, initialized |-> is_initialized, error |-> error]
    ELSE IF init_ok
    THEN [ready |-> TRUE, attempted |-> TRUE, initialized |-> TRUE, error |-> error]
    ELSE [ready |-> FALSE, attempted |-> TRUE, initialized |-> is_initialized,
          error |-> "Exception"]

\* ensure_ready (lines 101-129): the value returned, whether
\* _initialize_icons_collection was called, and the two latches after the
\* call; init_ok tells whether the initialization, if called, returns
\* rather than raises.
EnsureReady(is_disabled, is_initialized, error, init_ok) ==
    IF is_disabled
    THEN [ready |-> FALSE, attempted |-> FALSE, initialized |-> is_initialized, error |-> error]
    ELSE IF is_initialized
    THEN [ready |-> TRUE, attempted |-> FALSE, initialized |-> is_initialized, error |-> error]
    ELSE IF error # "None"
    THEN [ready |-> FALSE, attempted |-> FALSE, initialized |-> is_initialized, error |-> error]
    ELSE IF init_ok
    THEN [ready |-> TRUE, attempted |-> TRUE, initialized |-> TRUE, error |-> error]
    ELSE [ready |-> FALSE, attempted |-> TRUE, initialized |-> is_initialized,
          error |-> "Exception"]

\* search_icons, lines 141-142: the paths of the ids of the first query.
IconPaths(ids) == [k \in 1..Len(ids) |-> <<"/static/icons/bold/", ids[k], ".svg">>]

(***************************************************************************)
(* The input space: packages of bounded size, in four classes.             *)
(***************************************************************************)
SeqsUpTo(S, n) == UNION {[1..k -> S] : k \in 0..n}

RECURSIVE ToDigits(_)
ToDigits(n) == IF n < 10 THEN <<48 + n>> ELSE ToDigits(n \div 10) \o <<48 + (n % 10)>>

SlideName(n) == [head |-> SlideHead, rest |-> ToDigits(n) \o DotXml]
LayoutName == [head |-> LayoutHead, rest |-> ToDigits(1) \o DotXml]
LayoutPart == XmlSlide(<<ComicSans>>, <<>>)

\* Part numbers a package may use; 2 and 10 order differently as numbers
\* and as strings.
SlideIndices == {1, 2, 10}

TitleName == <<84, 105, 116, 108, 101>>
Shape(k, paras) == [id |-> ToDigits(k + 1), name |-> TitleName, paragraphs |-> paras]
Para(def, end, runs) == [def |-> def, end |-> end, runs |-> runs]
Run(tf, b, i, t) == [tf |-> tf, b |-> b, i |-> i, t |-> t]

AttrOne == <<49>>
AttrZero == <<48>>
AttrTrueSpaced == <<32, 84, 114, 117, 101>>

Font(tf, styles) ==
    [font |-> tf,
     regular |-> "regular" \in styles,
     bold |-> "bold" \in styles,
     italic |-> "italic" \in styles,
     boldItalic |-> "boldItalic" \in styles]
StyleNames == {"regular", "bold", "italic", "boldItalic"}
Manifest(lst) == [present |-> TRUE, embeddedFontLst |-> lst]
NoManifest == [present |-> FALSE, embeddedFontLst |-> <<>>]
Theme(major, minor) == [present |-> TRUE, major |-> major, minor |-> minor]
NoTheme == [present |-> FALSE, major |-> NoneVal, minor |-> NoneVal]

Package(presentation, theme, zf) == [presentation |-> presentation, theme |-> theme, zf |-> zf]

\* The subsequence of items assigned to slide i.
RECURSIVE Assigned(_, _, _)
Assigned(items, assign, i) ==
    IF items = <<>> THEN <<>>
    ELSE LET rest == Assigned(SubSeq(items, 1, Len(items) - 1), assign, i)
         IN IF assign[Len(items)] = i THEN Append(rest, items[Len(items)]) ELSE rest

FirstSlides == {SlideName(i) : i \in 1..MaxSlides}

\* Class A: slides that only request typefaces, under every theme.
RequestTypefaces == {Arial, ComicSans, TokMinor, TokMajor, TokEa}
Themes == {NoTheme} \cup {Theme(mj, mn) : mj \in {NoneVal, Arial, Calibri}, mn \in {<<>>, Arial}}
RequestPackage(th, reqs, assign) ==
    Package(Manifest(<<Font(Arial, StyleNames)>>), th,
            [n \in FirstSlides \cup {LayoutName} |->
               IF n = LayoutName THEN LayoutPart
               ELSE XmlSlide(Assigned(reqs, assign, ExtractSlideIndex(n)), <<>>)])

\* Class B: one paragraph with several runs, under every set of embedded
\* style slots.
AttrPairs ==
    {<<NoneVal, NoneVal>>, <<AttrOne, NoneVal>>, <<NoneVal, AttrOne>>, <<AttrOne, AttrOne>>,
     <<AttrZero, AttrTrueSpaced>>, <<AttrTrueSpaced, AttrZero>>}
Runs ==
    {Run(NoneVal, NoneVal, NoneVal, NoneVal), Run(NoneVal, AttrOne, NoneVal, TextHi),
     Run(<<>>, NoneVal, AttrOne, <<>>)}
    \cup {Run(Calibri, bi[1], bi[2], TextHi) : bi \in AttrPairs}
Covers == {<<NoneVal, NoneVal>>, <<Arial, NoneVal>>, <<<<>>, TokMinor>>}
Manifests ==
    {NoManifest, Manifest(<<Font(NoneVal, StyleNames)>>),
     Manifest(<<Font(Calibri, {"italic"}), Font(Arial, {}), Font(Calibri, {"regular", "bold"})>>)}
    \cup {Manifest(<<Font(Calibri, ss)>>) : ss \in SUBSET StyleNames}
RunPackage(m, c, runs) ==
    Package(m, Theme(Arial, Calibri),
            [n \in {SlideName(1)} |-> XmlSlide(<<>>, <<Shape(1, <<Para(c[1], c[2], runs)>>)>>)])

\* Class C: several paragraphs spread over the slides.
ShortRuns == {<<>>, <<Run(NoneVal, NoneVal, NoneVal, TextHi)>>, <<Run(Calibri, AttrOne, NoneVal, TextHi)>>}
Paragraphs == {Para(c[1], c[2], runs) : c \in Covers, runs \in ShortRuns}
ParagraphPackage(paras, assign) ==
    Package(Manifest(<<Font(Calibri, {"regular"})>>), Theme(Arial, Calibri),
            [n \in FirstSlides |->
               LET ps == Assigned(paras, assign, ExtractSlideIndex(n))
               IN XmlSlide(<<>>, IF ps = <<>> THEN <<>> ELSE <<Shape(1, ps)>>)])

\* Class D: any parts of the slide directory, each empty, malformed or one
\* of three trees.
TreeRequests == XmlSlide(<<ComicSans, TokMinor, ComicSans>>, <<>>)
TreeTwoShapes ==
    XmlSlide(<<Arial>>,
             <<Shape(1, <<Para(NoneVal, NoneVal, <<>>)>>),
               Shape(2, <<Para(NoneVal, Arial, <<Run(NoneVal, NoneVal, NoneVal, TextHi)>>),
                          Para(NoneVal, NoneVal, <<Run(Calibri, AttrOne, AttrOne, TextHi),
                                                   Run(NoneVal, NoneVal, NoneVal, TextHi),
                                                   Run(NoneVal, NoneVal, NoneVal, NoneVal)>>)>>)>>)
TreeToken == XmlSlide(<<TokMinor>>, <<Shape(1, <<Para(Calibri, NoneVal, <<>>)>>)>>)
Parts == {EmptyPart, MalformedPart, TreeRequests, TreeTwoShapes, TreeToken}
PartPackage(zf) ==
    Package(Manifest(<<Font(Calibri, {"regular", "bold"})>>), Theme(NoneVal, Arial), zf)

\* The packages an audit may be started on.
InputPackage(package) ==
    \/ \E th \in Themes, reqs \in SeqsUpTo(RequestTypefaces, MaxRequests),
          assign \in [1..MaxRequests -> 1..MaxSlides] :
          package = RequestPackage(th, reqs, assign)
    \/ \E m \in Manifests, c \in Covers, runs \in SeqsUpTo(Runs, MaxRuns) :
          package = RunPackage(m, c, runs)
    \/ \E paras \in SeqsUpTo(Paragraphs, MaxParas), assign \in [1..MaxParas -> 1..MaxSlides] :
          package = ParagraphPackage(paras, assign)
    \/ \E I \in {J \in SUBSET SlideIndices : Cardinality(J) <= MaxSlides} :
          \E zf \in [{SlideName(i) : i \in I} -> Parts] :
             package = PartPackage(zf)

(***************************************************************************)
(* audit_pptx as a state machine.  pc is the position in the function:     *)
(* "start" before the manifest is read, "slides" at the head of the slide  *)
(* loop, "latin" in the raw request scan of a slide, "paragraphs" in its   *)
(* paragraph scan, "done" once the report is built, "aborted" when         *)
(* ET.fromstring has raised out of the function, "returned" once main has  *)
(* returned its exit code (exit_code is -1 until then).                    *)
(***************************************************************************)
VARIABLES
    pkg, pc,
    embedded_typefaces, embedded_styles, theme_major, theme_minor,
    slide_entries, slide_pos, latin_pos, para_pos,
    requested_counts_raw, requested_counts_faces,
    requested_counts_tokens, requested_counts_resolved,
    missing_runs, missing_paragraphs,
    missing_paragraphs_empty, missing_paragraphs_nonempty,
    missing_runs_with_text, missing_paragraph_locations,
    unsupported_style_counts, unsupported_style_violations,
    requested_typefaces, requested_faces,
    requested_theme_tokens, requested_resolved, unknown_requested,
    exit_code,
    data, sn_pc, sn_i, current, strings, extracted, utf16_strings,
    disabled, initialized, init_error, init_attempts, calls

position == <<pc, slide_entries, slide_pos, latin_pos, para_pos>>
manifest == <<embedded_typefaces, embedded_styles, theme_major, theme_minor>>
requests == <<requested_counts_raw, requested_counts_faces,
              requested_counts_tokens, requested_counts_resolved>>
missing == <<missing_runs, missing_paragraphs, missing_paragraphs_empty,
             missing_paragraphs_nonempty, missing_runs_with_text,
             missing_paragraph_locations>>
unsupported == <<unsupported_style_counts, unsupported_style_violations>>
report == <<requested_typefaces, requested_faces, requested_theme_tokens,
            requested_resolved, unknown_requested>>
sniffer == <<data, sn_pc, sn_i, current, strings, extracted, utf16_strings>>
audit == <<pkg, position, manifest, requests, missing, unsupported, report, exit_code>>
service == <<disabled, initialized, init_error, init_attempts, calls>>
vars == <<audit, sniffer, service>>

\* Lines 265-276: the accumulators are empty; nothing is reported yet.
AccumulatorsEmpty ==
    /\ embedded_typefaces = <<>>
    /\ embedded_styles = <<>>
    /\ theme_major = NoneVal
    /\ theme_minor = NoneVal
    /\ slide_entries = <<>>
    /\ slide_pos = 1
    /\ latin_pos = 1
    /\ para_pos = 1
    /\ requested_counts_raw = EmptyCounter
    /\ requested_counts_faces = EmptyCounter
    /\ requested_counts_tokens = EmptyCounter
    /\ requested_counts_resolved = EmptyCounter
    /\ missing_runs = 0
    /\ missing_paragraphs = 0
    /\ missing_paragraphs_empty = 0
    /\ missing_paragraphs_nonempty = 0
    /\ missing_runs_with_text = 0
    /\ missing_paragraph_locations = <<>>
    /\ unsupported_style_counts = EmptyCounter
    /\ unsupported_style_violations = <<>>
    /\ requested_typefaces = <<>>
    /\ requested_faces = <<>>
    /\ requested_theme_tokens = <<>>
    /\ requested_resolved = <<>>
    /\ unknown_requested = <<>>
    /\ exit_code = -1

\* No font program is being sniffed.
SnifferIdle ==
    /\ data = <<>>
    /\ sn_pc = "idle"
    /\ sn_i = 0
    /\ current = <<>>
    /\ strings = <<>>
    /\ extracted = <<>>
    /\ utf16_strings = <<>>

\* __init__ (lines 15-34) under the two environment values; init_attempts
\* counts the calls of _initialize_icons_collection and calls records each
\* call made on the instance.
Constructed(enable_env, disable_env) ==
    /\ disabled = Disabled(enable_env, disable_env)
    /\ initialized = FALSE
    /\ init_error = "None"
    /\ init_attempts = 0
    /\ calls = <<>>

\* The module's instance with neither environment variable set.
ServiceIdle == Constructed(<<>>, <<>>)

Init ==
    /\ InputPackage(pkg)
    /\ pc = "start"
    /\ AccumulatorsEmpty
    /\ SnifferIdle
    /\ ServiceIdle

\* The slide the loop is at, and its tree.
SlideNameAt == slide_entries[slide_pos]
SlideAt == ReadZipEntry(pkg.zf, SlideNameAt)

\* Lines 254-276 with the slide list in the given order.
OpenWith(order) ==
    /\ pc = "start"
    /\ embedded_typefaces' = ParseEmbeddedTypefaces(pkg.presentation)
    /\ embedded_styles' = ParseEmbeddedFontStyles(pkg.presentation)
    /\ theme_major' = ParseThemeFonts(pkg.theme).major
    /\ theme_minor' = ParseThemeFonts(pkg.theme).minor
    /\ slide_entries' = order
    /\ slide_pos' = 1
    /\ pc' = "slides"
    /\ UNCHANGED <<service, sniffer, pkg, exit_code, latin_pos, para_pos, requests, missing, unsupported, report>>

\* Lines 254-278: the manifest and the theme are parsed, the accumulators
\* are empty, the slide parts are listed by _iter_slide_entries.
Open == OpenWith(IterSlideEntries(pkg.zf))

\* Lines 279-281: "if not slide_xml: continue".
SkipSlide ==
    /\ pc = "slides"
    /\ slide_pos <= Len(slide_entries)
    /\ NotBytes(SlideAt)
    /\ slide_pos' = slide_pos + 1
    /\ UNCHANGED <<service, sniffer, pkg, exit_code, pc, slide_entries, latin_pos, para_pos, manifest, requests,
                   missing, unsupported, report>>

\* Line 282: ET.fromstring raises ParseError, which nothing catches.
AbortSlide ==
    /\ pc = "slides"
    /\ slide_pos <= Len(slide_entries)
    /\ SlideAt.kind = "malformed"
    /\ pc' = "aborted"
    /\ UNCHANGED <<service, sniffer, pkg, exit_code, slide_entries, slide_pos, latin_pos, para_pos, manifest, requests,
                   missing, unsupported, report>>

\* Lines 282-283: the slide parses; its scans start.
EnterSlide ==
    /\ pc = "slides"
    /\ slide_pos <= Len(slide_entries)
    /\ SlideAt.kind = "xml"
    /\ pc' = "latin"
    /\ latin_pos' = 1
    /\ para_pos' = 1
    /\ UNCHANGED <<service, sniffer, pkg, exit_code, slide_entries, slide_pos, manifest, requests, missing,
                   unsupported, report>>

\* Lines 285-297: one a:latin element of the slide.
ScanLatin ==
    /\ pc = "latin"
    /\ latin_pos <= Len(SlideLatins(SlideAt))
    /\ LET tf == SlideLatins(SlideAt)[latin_pos]
       IN /\ requested_counts_raw' = RawAfter(requested_counts_raw, tf)
          /\ requested_counts_tokens' = TokensAfter(requested_counts_tokens, tf)
          /\ requested_counts_faces' = FacesAfter(requested_counts_faces, tf)
          /\ requested_counts_resolved' =
                ResolvedAfter(requested_counts_resolved, tf, theme_major, theme_minor)
    /\ latin_pos' = latin_pos + 1
    /\ UNCHANGED <<service, sniffer, pkg, exit_code, pc, slide_entries, slide_pos, para_pos, manifest, missing,
                   unsupported, report>>

\* Line 299: the request scan is over, the shapes with a text body follow.
EndLatinScan ==
    /\ pc = "latin"
    /\ latin_pos > Len(SlideLatins(SlideAt))
    /\ pc' = "paragraphs"
    /\ UNCHANGED <<service, sniffer, pkg, exit_code, slide_entries, slide_pos, latin_pos, para_pos, manifest, requests,
                   missing, unsupported, report>>

\* Lines 308-381: one paragraph, with its runs.
ScanParagraph ==
    /\ pc = "paragraphs"
    /\ para_pos <= Len(SlideParagraphs(SlideAt))
    /\ LET e == SlideParagraphs(SlideAt)[para_pos]
           p_has == ParagraphHasTypeface(e.p)
           run_count == Len(e.p.runs)
           snippet_text == SnippetText(e.p.runs)
           is_empty == IsEmptyParagraph(run_count, snippet_text)
           found == NewViolations(embedded_styles, SlideNameAt, e)
           lost == MissingRunsOf(e.p)
       IN /\ unsupported_style_violations' = unsupported_style_violations \o found
          /\ unsupported_style_counts' = CountViolations(unsupported_style_counts, found)
          /\ missing_paragraphs' = IF p_has THEN missing_paragraphs ELSE missing_paragraphs + 1
          /\ missing_paragraphs_empty' =
                IF ~p_has /\ is_empty THEN missing_paragraphs_empty + 1
                ELSE missing_paragraphs_empty
          /\ missing_paragraphs_nonempty' =
                IF ~p_has /\ ~is_empty THEN missing_paragraphs_nonempty + 1
                ELSE missing_paragraphs_nonempty
          /\ missing_paragraph_locations' =
                LocationsAfter(missing_paragraph_locations, p_has, is_empty,
                               Location(SlideNameAt, e))
          /\ missing_runs' = missing_runs + Cardinality(lost)
          /\ missing_runs_with_text' =
                missing_runs_with_text + Cardinality({k \in lost : RunHasText(e.p.runs[k])})
    /\ para_pos' = para_pos + 1
    /\ UNCHANGED <<service, sniffer, pkg, exit_code, pc, slide_entries, slide_pos, latin_pos, manifest, requests, report>>

\* The slide's paragraphs are exhausted: the next slide part.
EndSlide ==
    /\ pc = "paragraphs"
    /\ para_pos > Len(SlideParagraphs(SlideAt))
    /\ pc' = "slides"
    /\ slide_pos' = slide_pos + 1
    /\ UNCHANGED <<service, sniffer, pkg, exit_code, slide_entries, latin_pos, para_pos, manifest, requests, missing,
                   unsupported, report>>

\* Lines 383-390: the sorted views and unknown_requested.
Finish ==
    /\ pc = "slides"
    /\ slide_pos > Len(slide_entries)
    /\ requested_typefaces' = CounterToSortedDict(requested_counts_raw)
    /\ requested_faces' = CounterToSortedDict(requested_counts_faces)
    /\ requested_theme_tokens' = CounterToSortedDict(requested_counts_tokens)
    /\ requested_resolved' = CounterToSortedDict(requested_counts_resolved)
    /\ unknown_requested' = UnknownRequested(requested_counts_faces, embedded_typefaces)
    /\ pc' = "done"
    /\ UNCHANGED <<service, sniffer, pkg, exit_code, slide_entries, slide_pos, latin_pos, para_pos, manifest, requests,
                   missing, unsupported>>

\* main, lines 503-505: the report is back from audit_pptx, the summary is
\* printed, the exit code returned.
Return ==
    /\ pc = "done"
    /\ exit_code' = ExitCode(unknown_requested)
    /\ pc' = "returned"
    /\ UNCHANGED <<service, sniffer, pkg, slide_entries, slide_pos, latin_pos, para_pos, manifest,
                   requests, missing, unsupported, report>>

Next ==
    \/ Open
    \/ SkipSlide
    \/ AbortSlide
    \/ EnterSlide
    \/ ScanLatin
    \/ EndLatinScan
    \/ ScanParagraph
    \/ EndSlide
    \/ Finish
    \/ Return

Spec == Init /\ [][Next]_vars

\* The orders in which the slide parts of a package can be taken.
Orders(zf) ==
    LET S == {n \in DOMAIN zf : IsSlideEntry(n)}
    IN {o \in [1..Cardinality(S) -> S] : \A i, j \in 1..Cardinality(S) : i # j => o[i] # o[j]}

\* audit_pptx with the slide loop taking the parts in any order.
OpenAnyOrder == \E order \in Orders(pkg.zf) : OpenWith(order)

NextAnyOrder ==
    \/ OpenAnyOrder
    \/ SkipSlide
    \/ AbortSlide
    \/ EnterSlide
    \/ ScanLatin
    \/ EndLatinScan
    \/ ScanParagraph
    \/ EndSlide
    \/ Finish
    \/ Return

SpecAnyOrder == Init /\ [][NextAnyOrder]_vars

(***************************************************************************)
(* The name sniffer as a state machine: _filter_name_strings applied to    *)
(* _extract_utf16le_strings(data), as line 143-150 calls them.  sn_pc is   *)
(* "scan" in the while loop, "tail" after the loop (left by its condition  *)
(* or by break), "filter" once the de-duplicated list is returned, "done"  *)
(* once the filtered list is returned; sn_i is the byte offset i.          *)
(***************************************************************************)
MaxBytes == 6
MaxCandidates == 21

\* UTF-16LE of an ASCII string: each character with a zero high byte.
RECURSIVE Wide(_)
Wide(str) == IF str = <<>> THEN <<>> ELSE <<Head(str), 0>> \o Wide(Tail(str))

\* Class A: every short blob over a few byte values ("1", "A", zero, and a
\* byte outside ASCII).
SmallBytes == {0, 49, 65, 200}

\* Class B: up to MaxCandidates three-character strings, each closed by a
\* rejected pair, after a head and before a tail.
CandidateKinds == {"same", "eleven", "distinct", "digits"}
Candidate(kind, k) ==
    CASE kind = "same" -> <<97, 98, 99>>
      [] kind = "eleven" -> <<97, 98, 65 + (k % 11)>>
      [] kind = "distinct" -> <<97, 98, 65 + k>>
      [] kind = "digits" -> <<49, 50, 48 + (k % 10)>>
Closing(k) == IF k % 2 = 0 THEN <<31, 0>> ELSE <<65, 1>>
RECURSIVE Candidates(_, _)
Candidates(kind, n) ==
    IF n = 0 THEN <<>>
    ELSE Candidates(kind, n - 1) \o Wide(Candidate(kind, n)) \o Closing(n)
Fill(n) == [k \in 1..n |-> IF k = 1 THEN 32 ELSE IF k = n THEN 126 ELSE 110]
Heads ==
    {<<>>, Wide(Fill(MaxLen + 1)) \o <<127, 0>>, Wide(Fill(MaxLen)) \o <<127, 0>>,
     Wide(<<50, 48, 50, 52>>) \o <<0, 0>>}
Tails == {<<>>, Wide(<<120, 121, 122>>), Wide(<<120, 121>>), Wide(<<120, 121, 122>>) \o <<65>>}

\* The blobs a font part may hold.
InputBlob(blob) ==
    \/ blob \in SeqsUpTo(SmallBytes, MaxBytes)
    \/ \E kind \in CandidateKinds, n \in 0..MaxCandidates, h \in Heads, t \in Tails :
          blob = h \o Candidates(kind, n) \o t

\* No audit is running.
AuditIdle ==
    /\ pkg = Package(NoManifest, NoTheme, <<>>)
    /\ pc = "off"
    /\ AccumulatorsEmpty

\* Lines 81-84: _extract_utf16le_strings is entered.
InitSniffer ==
    /\ AuditIdle
    /\ ServiceIdle
    /\ InputBlob(data)
    /\ sn_pc = "scan"
    /\ sn_i = 0
    /\ current = <<>>
    /\ strings = <<>>
    /\ extracted = <<>>
    /\ utf16_strings = <<>>

\* Lines 85-89 and 97: an accepted pair extends the current string.
AcceptPair ==
    /\ sn_pc = "scan"
    /\ sn_i + 1 < Len(data)
    /\ Accepted(data[sn_i + 1], data[sn_i + 2])
    /\ current' = Append(current, data[sn_i + 1])
    /\ sn_i' = sn_i + 2
    /\ UNCHANGED <<service, audit, data, sn_pc, strings, extracted, utf16_strings>>

\* Lines 90-97: a rejected pair closes the current string, which is kept
\* if long enough; the loop breaks at max_items strings.
ClosePair ==
    /\ sn_pc = "scan"
    /\ sn_i + 1 < Len(data)
    /\ ~Accepted(data[sn_i + 1], data[sn_i + 2])
    /\ strings' = IF Len(current) >= MinLen THEN Append(strings, DecodeAscii(current))
                  ELSE strings
    /\ IF Len(current) >= MinLen /\ Len(strings') >= MaxItems
       THEN sn_pc' = "tail" /\ UNCHANGED <<current, sn_i>>
       ELSE current' = <<>> /\ sn_i' = sn_i + 2 /\ UNCHANGED sn_pc
    /\ UNCHANGED <<service, audit, data, extracted, utf16_strings>>

\* Line 85: the loop condition fails.
EndScan ==
    /\ sn_pc = "scan"
    /\ ~(sn_i + 1 < Len(data))
    /\ sn_pc' = "tail"
    /\ UNCHANGED <<service, audit, data, sn_i, current, strings, extracted, utf16_strings>>

\* Lines 98-106: the string open at the end is kept if there is room, and
\* the list is returned without duplicates.
ReturnStrings ==
    /\ sn_pc = "tail"
    /\ strings' = IF Len(strings) < MaxItems /\ Len(current) >= MinLen
                  THEN Append(strings, DecodeAscii(current))
                  ELSE strings
    /\ extracted' = Dedupe(strings')
    /\ sn_pc' = "filter"
    /\ UNCHANGED <<service, audit, data, sn_i, current, utf16_strings>>

\* Lines 109-119: _filter_name_strings on the returned list.
FilterNames ==
    /\ sn_pc = "filter"
    /\ utf16_strings' = FilterNameStrings(extracted)
    /\ sn_pc' = "done"
    /\ UNCHANGED <<service, audit, data, sn_i, current, strings, extracted>>

NextSniffer ==
    \/ AcceptPair
    \/ ClosePair
    \/ EndScan
    \/ ReturnStrings
    \/ FilterNames

SpecSniffer == InitSniffer /\ [][NextSniffer]_vars

(***************************************************************************)
(* One IconFinderService instance and the calls made on it, one after the  *)
(* other: ensure_ready is synchronous, and search_icons calls it before    *)
(* its first await.                                                        *)
(***************************************************************************)
MaxCalls == 4

\* Values of ENABLE_ICON_FINDER and DISABLE_ICON_FINDER: unset, "1", "True",
\* "yes", "0", "on".
EnvValues ==
    {<<>>, <<49>>, <<84, 114, 117, 101>>, <<121, 101, 115>>, <<48>>, <<111, 110>>}

\* The ids a query may return.
IconIds == {<<>>, <<"alarm-bold">>, <<"alarm-bold", "bell-bold">>}

InitService ==
    /\ AuditIdle
    /\ SnifferIdle
    /\ \E enable_env \in EnvValues, disable_env \in EnvValues :
          Constructed(enable_env, disable_env)

\* A call of ensure_ready (lines 101-129).
CallEnsureReady ==
    /\ Len(calls) < MaxCalls
    /\ \E init_ok \in BOOLEAN :
          LET r == EnsureReady(disabled, initialized, init_error, init_ok)
          IN /\ initialized' = r.initialized
             /\ init_error' = r.error
             /\ init_attempts' = init_attempts + (IF r.attempted THEN 1 ELSE 0)
             /\ calls' = Append(calls, [op |-> "ensure_ready", attempted |-> r.attempted,
                                         ready |-> r.ready, result |-> <<>>])
    /\ UNCHANGED <<audit, sniffer, disabled>>

\* A call of search_icons (lines 131-146), awaited to its return: the query
\* returns ids or raises.
CallSearchIcons ==
    /\ Len(calls) < MaxCalls
    /\ \E init_ok \in BOOLEAN, query_ok \in BOOLEAN, ids \in IconIds :
          LET r == EnsureReady(disabled, initialized, init_error, init_ok)
          IN /\ initialized' = r.initialized
             /\ init_error' = r.error
             /\ init_attempts' = init_attempts + (IF r.attempted THEN 1 ELSE 0)
             /\ calls' = Append(calls, [op |-> "search_icons", attempted |-> r.attempted,
                                         ready |-> r.ready,
                                         result |-> IF r.ready /\ query_ok THEN IconPaths(ids)
                                                    ELSE <<>>])
    /\ UNCHANGED <<audit, sniffer, disabled>>

NextService ==
    \/ CallEnsureReady
    \/ CallSearchIcons

SpecService == InitService /\ [][NextService]_vars

(***************************************************************************)
(* What the audit has read so far, taken from the package and the position *)
(* alone: the properties below compare the accumulators with it.           *)
(***************************************************************************)
PartAt(k) == ReadZipEntry(pkg.zf, slide_entries[k])

\* The typeface attributes of the a:latin elements scanned so far, in order.
ScannedLatins ==
    Concat([k \in 1..Min(slide_pos, Len(slide_entries)) |->
              IF PartAt(k).kind # "xml" THEN <<>>
              ELSE IF k < slide_pos \/ pc = "paragraphs" THEN SlideLatins(PartAt(k))
              ELSE IF pc = "latin" THEN SubSeq(SlideLatins(PartAt(k)), 1, latin_pos - 1)
              ELSE <<>>])

\* The paragraphs scanned so far, each with its slide part.
ScannedParagraphs ==
    Concat([k \in 1..Min(slide_pos, Len(slide_entries)) |->
              LET ps == SlideParagraphs(PartAt(k))
                  n == IF PartAt(k).kind # "xml" THEN 0
                       ELSE IF k < slide_pos THEN Len(ps)
                       ELSE IF pc = "paragraphs" THEN para_pos - 1
                       ELSE 0
              IN [j \in 1..n |-> [slide |-> slide_entries[k], e |-> ps[j]]]])

\* The runs of the scanned paragraphs, each with its place.
ScannedRuns ==
    Concat([j \in 1..Len(ScannedParagraphs) |->
              LET sp == ScannedParagraphs[j]
              IN [k \in 1..Len(sp.e.p.runs) |->
                    [slide |-> sp.slide, e |-> sp.e, run_index |-> k, r |-> sp.e.p.runs[k]]]])

Occurrences(seq, x) == Cardinality({k \in 1..Len(seq) : seq[k] = x})

NonEmpty(s) == s # NoneVal /\ s # <<>>
IsThemeToken(tf) == NonEmpty(tf) /\ Head(tf) = 43
IsLiteralFace(tf) == NonEmpty(tf) /\ Head(tf) # 43

\* The value a sorted report mapping holds for a key, 0 without the key.
DictGet(items, k) ==
    IF \E j \in 1..Len(items) : items[j][1] = k
    THEN items[CHOOSE j \in 1..Len(items) : items[j][1] = k][2]
    ELSE 0
DictKeys(items) == {items[j][1] : j \in 1..Len(items)}

(***************************************************************************)
(* C1: in the report, unknown_requested lists exactly R - E, R the         *)
(* literal faces (not starting with "+") requested on the slides and E the *)
(* embedded typeface names of the manifest: each such face once, whatever  *)
(* the order and the number of its requests, and never a theme token.      *)
(***************************************************************************)
RequestedLiteralFaces == {tf \in SeqRange(ScannedLatins) : IsLiteralFace(tf)}
EmbeddedNames ==
    IF ~pkg.presentation.present THEN {}
    ELSE {f.font : f \in {g \in SeqRange(pkg.presentation.embeddedFontLst) : NonEmpty(g.font)}}

UnknownRequestedIsDifference ==
    pc = "done" =>
        /\ SeqRange(unknown_requested) = RequestedLiteralFaces \ EmbeddedNames
        /\ Len(unknown_requested) = Cardinality(RequestedLiteralFaces \ EmbeddedNames)
        /\ \A k \in 1..Len(unknown_requested) : ~IsThemeToken(unknown_requested[k])

\* A face requested twice is reported unknown once, beside a requested
\* embedded face and a requested token that are not reported.
UnknownRequestedWitness ==
    /\ pc = "done"
    /\ \E tf \in SeqRange(unknown_requested) : Occurrences(ScannedLatins, tf) >= 2
    /\ RequestedLiteralFaces \cap EmbeddedNames # {}
    /\ \E tf \in SeqRange(ScannedLatins) : IsThemeToken(tf)

(***************************************************************************)
(* C2: after any prefix of the request scan, every request with a          *)
(* non-empty typeface is counted once in the raw counter and once in       *)
(* exactly one of the face and token counters: raw[k] = faces[k] +         *)
(* tokens[k] for every key, no key is in both, and the same holds of the   *)
(* report's requested_typefaces, requested_faces, requested_theme_tokens.  *)
(***************************************************************************)
RequestKeys ==
    DOMAIN requested_counts_raw \cup DOMAIN requested_counts_faces
    \cup DOMAIN requested_counts_tokens \cup SeqRange(ScannedLatins)

RequestsPartitioned ==
    /\ \A k \in RequestKeys :
          /\ CounterGet(requested_counts_raw, k) =
                IF NonEmpty(k) THEN Occurrences(ScannedLatins, k) ELSE 0
          /\ CounterGet(requested_counts_raw, k) =
                CounterGet(requested_counts_faces, k) + CounterGet(requested_counts_tokens, k)
    /\ DOMAIN requested_counts_faces \cap DOMAIN requested_counts_tokens = {}
    /\ pc = "done" =>
          /\ \A k \in RequestKeys :
                DictGet(requested_typefaces, k) =
                   DictGet(requested_faces, k) + DictGet(requested_theme_tokens, k)
          /\ DictKeys(requested_faces) \cap DictKeys(requested_theme_tokens) = {}
          /\ DictKeys(requested_typefaces) = DOMAIN requested_counts_raw

\* Mid-scan, a face and a token have both been counted, one of them twice.
RequestsPartitionedWitness ==
    /\ pc = "latin"
    /\ DOMAIN requested_counts_faces # {}
    /\ DOMAIN requested_counts_tokens # {}
    /\ \E k \in DOMAIN requested_counts_raw : requested_counts_raw[k] >= 2

(***************************************************************************)
(* C3: each "+mn-lt" adds one unit to requested_resolved under the theme's *)
(* minor latin name when there is one, each "+mj-lt" one unit under the    *)
(* major latin name when there is one, any other token and a token whose   *)
(* slot is absent nothing (while being counted raw and as a token): for    *)
(* every name n, resolved[n] = faces[n] + (number of "+mn-lt" if the minor *)
(* name is n) + (number of "+mj-lt" if the major name is n).               *)
(***************************************************************************)
MinorLatin == IF pkg.theme.present THEN pkg.theme.minor ELSE NoneVal
MajorLatin == IF pkg.theme.present THEN pkg.theme.major ELSE NoneVal

ResolvedNames ==
    (DOMAIN requested_counts_resolved \cup DOMAIN requested_counts_faces
     \cup {MinorLatin, MajorLatin, Arial, Calibri}) \ {NoneVal, <<>>}

TokensResolveThroughTheme ==
    /\ DOMAIN requested_counts_resolved \subseteq ResolvedNames
    /\ \A n \in ResolvedNames :
          CounterGet(requested_counts_resolved, n) =
             CounterGet(requested_counts_faces, n)
             + (IF MinorLatin = n THEN Occurrences(ScannedLatins, TokMinor) ELSE 0)
             + (IF MajorLatin = n THEN Occurrences(ScannedLatins, TokMajor) ELSE 0)
    /\ \A t \in {x \in SeqRange(ScannedLatins) : IsThemeToken(x)} :
          /\ CounterGet(requested_counts_raw, t) = Occurrences(ScannedLatins, t)
          /\ CounterGet(requested_counts_tokens, t) = Occurrences(ScannedLatins, t)

\* "+mn-lt" was requested under a theme whose minor name is also requested
\* as a face: the name holds the units of both.
TokensResolveWitness ==
    /\ NonEmpty(MinorLatin)
    /\ CounterGet(requested_counts_tokens, TokMinor) >= 1
    /\ CounterGet(requested_counts_faces, MinorLatin) >= 1
    /\ CounterGet(requested_counts_resolved, MinorLatin) >= 2

(***************************************************************************)
(* C4: after each paragraph and in the report, missing_paragraphs_empty +  *)
(* missing_paragraphs_nonempty = missing paragraphs, and every scanned     *)
(* paragraph without a default or end typeface is in exactly one class     *)
(* (empty: no runs and no non-empty run text; nonempty otherwise), a       *)
(* paragraph with a default or end typeface in neither.                    *)
(***************************************************************************)
Covered(p) == NonEmpty(p.def) \/ NonEmpty(p.end)
HasNoRunsNorText(p) == Len(p.runs) = 0 /\ \A k \in 1..Len(p.runs) : ~NonEmpty(p.runs[k].t)
CountParagraphs(Test(_)) ==
    Cardinality({j \in 1..Len(ScannedParagraphs) : Test(ScannedParagraphs[j].e.p)})

MissingParagraphsPartitioned ==
    /\ missing_paragraphs_empty + missing_paragraphs_nonempty = missing_paragraphs
    /\ missing_paragraphs = CountParagraphs(LAMBDA p : ~Covered(p))
    /\ missing_paragraphs_empty = CountParagraphs(LAMBDA p : ~Covered(p) /\ HasNoRunsNorText(p))
    /\ missing_paragraphs_nonempty = CountParagraphs(LAMBDA p : ~Covered(p) /\ ~HasNoRunsNorText(p))

\* Mid-scan, one paragraph of each class has been scanned, the nonempty one
\* holding a run without text.
MissingParagraphsWitness ==
    /\ pc = "paragraphs"
    /\ missing_paragraphs_empty >= 1
    /\ missing_paragraphs_nonempty >= 1
    /\ CountParagraphs(LAMBDA p : Covered(p)) >= 1

(***************************************************************************)
(* C5: a style violation is recorded for a run if and only if the run has  *)
(* its own typeface, the typeface has an entry in the embedded style-flags *)
(* mapping, and the flag of the style its bold/italic attributes require   *)
(* (both: boldItalic, bold only: bold, italic only: italic, neither:       *)
(* regular) is false in the entry; no other run adds a violation record or *)
(* an unsupported-style count.                                             *)
(***************************************************************************)
StyleRequiredBy(r) ==
    CASE TruthyAttr(r.b) /\ TruthyAttr(r.i) -> "boldItalic"
      [] TruthyAttr(r.b) /\ ~TruthyAttr(r.i) -> "bold"
      [] ~TruthyAttr(r.b) /\ TruthyAttr(r.i) -> "italic"
      [] ~TruthyAttr(r.b) /\ ~TruthyAttr(r.i) -> "regular"

FlagOf(entry, style) ==
    CASE style = "regular" -> entry.has_regular
      [] style = "bold" -> entry.has_bold
      [] style = "italic" -> entry.has_italic
      [] style = "boldItalic" -> entry.has_boldItalic

MustViolate(r) ==
    /\ NonEmpty(r.tf)
    /\ r.tf \in DOMAIN embedded_styles
    /\ ~FlagOf(embedded_styles[r.tf], StyleRequiredBy(r))

\* The scanned runs that meet the three conditions, in scan order.
ViolatingRuns == SelectSeq(ScannedRuns, LAMBDA x : MustViolate(x.r))

ViolationIffThreeConditions ==
    /\ Len(unsupported_style_violations) = Len(ViolatingRuns)
    /\ \A k \in 1..Len(ViolatingRuns) :
          LET v == unsupported_style_violations[k]
              x == ViolatingRuns[k]
          IN /\ v.slide_file = x.slide
             /\ v.shape_id = x.e.shape_id
             /\ v.paragraph_index = x.e.p_idx
             /\ v.run_index = x.run_index
             /\ v.typeface = x.r.tf
             /\ v.bold = TruthyAttr(x.r.b)
             /\ v.italic = TruthyAttr(x.r.i)
    /\ \A key \in DOMAIN unsupported_style_counts \cup
                  {<<ViolatingRuns[k].r.tf, StyleRequiredBy(ViolatingRuns[k].r)>> :
                      k \in 1..Len(ViolatingRuns)} :
          CounterGet(unsupported_style_counts, key) =
             Cardinality({k \in 1..Len(ViolatingRuns) :
                            <<ViolatingRuns[k].r.tf, StyleRequiredBy(ViolatingRuns[k].r)>> = key})

\* "Calibri" is embedded with regular and bold only and one scanned run
\* requests it bold and italic: one violation, for boldItalic.
ViolationWitness ==
    /\ Calibri \in DOMAIN embedded_styles
    /\ embedded_styles[Calibri] =
          [has_regular |-> TRUE, has_bold |-> TRUE, has_italic |-> FALSE, has_boldItalic |-> FALSE]
    /\ Len(ScannedRuns) >= 2
    /\ Len(unsupported_style_violations) = 1
    /\ unsupported_style_violations[1].typeface = Calibri
    /\ unsupported_style_violations[1].bold
    /\ unsupported_style_violations[1].italic
    /\ unsupported_style_counts = (<<Calibri, "boldItalic">> :> 1)

(***************************************************************************)
(* C6 as stated: a violation is produced only for an embedded entry that   *)
(* declares at least one of the four style slots; a run naming an embedded *)
(* font that declares none never produces one.                             *)
(***************************************************************************)
DeclaresSomeStyle(entry) ==
    entry.has_regular \/ entry.has_bold \/ entry.has_italic \/ entry.has_boldItalic

ViolationOnlyForDeclaredStyles ==
    \A k \in 1..Len(unsupported_style_violations) :
       LET tf == unsupported_style_violations[k].typeface
       IN tf \in DOMAIN embedded_styles /\ DeclaresSomeStyle(embedded_styles[tf])

(***************************************************************************)
(* C6 amended: a violation is produced only for a run whose own typeface   *)
(* has an entry in the embedded style-flags mapping, and an entry that     *)
(* declares none of the four style slots yields a violation for every run  *)
(* that names it, whatever the run's bold/italic attributes.               *)
(***************************************************************************)
HasViolationAt(x) ==
    \E k \in 1..Len(unsupported_style_violations) :
       LET v == unsupported_style_violations[k]
       IN /\ v.slide_file = x.slide
          /\ v.shape_id = x.e.shape_id
          /\ v.paragraph_index = x.e.p_idx
          /\ v.run_index = x.run_index

ViolationForEveryUndeclaredStyle ==
    /\ \A k \in 1..Len(unsupported_style_violations) :
          unsupported_style_violations[k].typeface \in DOMAIN embedded_styles
    /\ \A j \in 1..Len(ScannedRuns) :
          LET x == ScannedRuns[j]
          IN (/\ NonEmpty(x.r.tf)
              /\ x.r.tf \in DOMAIN embedded_styles
              /\ ~DeclaresSomeStyle(embedded_styles[x.r.tf]))
             => HasViolationAt(x)

\* Two runs name an embedded font without style slots, one plain and one
\* bold: both are recorded.
UndeclaredStyleWitness ==
    /\ \E i, j \in 1..Len(ScannedRuns) :
          /\ NonEmpty(ScannedRuns[i].r.tf)
          /\ ScannedRuns[i].r.tf \in DOMAIN embedded_styles
          /\ ~DeclaresSomeStyle(embedded_styles[ScannedRuns[i].r.tf])
          /\ ScannedRuns[j].r.tf = ScannedRuns[i].r.tf
          /\ StyleRequiredBy(ScannedRuns[i].r) = "regular"
          /\ StyleRequiredBy(ScannedRuns[j].r) = "bold"
    /\ Len(unsupported_style_violations) = 2

(***************************************************************************)
(* C7: a run is counted in missing_typeface_runs.runs if and only if it    *)
(* has no own typeface and its paragraph has neither a default nor an end  *)
(* typeface (no run of a paragraph with a paragraph-level typeface is ever *)
(* counted); missing_runs_with_text counts the missing runs that carry     *)
(* non-empty text, so missing_runs_with_text <= missing runs.              *)
(***************************************************************************)
IsMissingRun(x) == ~NonEmpty(x.r.tf) /\ ~Covered(x.e.p)
CountRuns(Test(_)) == Cardinality({j \in 1..Len(ScannedRuns) : Test(ScannedRuns[j])})

MissingRunsCounted ==
    /\ missing_runs = CountRuns(IsMissingRun)
    /\ missing_runs_with_text = CountRuns(LAMBDA x : IsMissingRun(x) /\ NonEmpty(x.r.t))
    /\ missing_runs_with_text <= missing_runs

\* A run without typeface in a covered paragraph was passed over, and of
\* the missing runs counted one carries text and one does not.
MissingRunsWitness ==
    /\ CountRuns(LAMBDA x : ~NonEmpty(x.r.tf) /\ Covered(x.e.p)) >= 1
    /\ CountRuns(LAMBDA x : NonEmpty(x.r.tf) /\ ~Covered(x.e.p)) >= 1
    /\ missing_runs_with_text >= 1
    /\ missing_runs > missing_runs_with_text

(***************************************************************************)
(* C8: the slide parts are listed, and so processed and reported, in       *)
(* ascending order of the number in the part name: of two parts with       *)
(* numbers i < j (slide2.xml, slide10.xml) the one numbered i comes first. *)
(***************************************************************************)
SlidesInIndexOrder ==
    \A i, j \in 1..Len(slide_entries) :
       i < j => ExtractSlideIndex(slide_entries[i]) < ExtractSlideIndex(slide_entries[j])

(***************************************************************************)
(* C9 as stated: a slide part that is missing or whose XML cannot be       *)
(* parsed is skipped silently: the audit does not abort, the part adds     *)
(* nothing, and every other slide part is audited and in the report.       *)
(***************************************************************************)
SlideParts == {n \in DOMAIN pkg.zf : IsSlideEntry(n)}

\* The sum of f[x] over the x in S.
RECURSIVE SumOver(_, _)
SumOver(S, f) ==
    IF S = {} THEN 0
    ELSE LET x == CHOOSE y \in S : TRUE
         IN f[x] + SumOver(S \ {x}, f)

\* What the well-formed slide parts of the package hold, whatever the order.
WellFormedSlides == {n \in SlideParts : pkg.zf[n].kind = "xml"}
RequestsInPackage(tf) ==
    SumOver(WellFormedSlides,
            [n \in WellFormedSlides |-> Occurrences(SlideLatins(pkg.zf[n]), tf)])
ParagraphsInPackage(Test(_)) ==
    SumOver(WellFormedSlides,
            [n \in WellFormedSlides |->
               Cardinality({k \in 1..Len(SlideParagraphs(pkg.zf[n])) :
                              Test(SlideParagraphs(pkg.zf[n])[k].p)})])
AllRequested == UNION {SeqRange(SlideLatins(pkg.zf[n])) : n \in WellFormedSlides}

ReportCoversReadableSlides ==
    /\ \A tf \in AllRequested \cup DOMAIN requested_counts_raw :
          CounterGet(requested_counts_raw, tf) = IF NonEmpty(tf) THEN RequestsInPackage(tf) ELSE 0
    /\ missing_paragraphs = ParagraphsInPackage(LAMBDA p : ~Covered(p))

UnreadableSlideSkipped ==
    /\ pc # "aborted"
    /\ pc = "done" => ReportCoversReadableSlides

(***************************************************************************)
(* C9 amended: a slide part that is missing or empty is skipped silently:  *)
(* the audit does not abort on it, the part adds nothing, and every other  *)
(* slide part is audited and in the report; a slide part whose XML cannot  *)
(* be parsed aborts the audit when the loop reaches it, and no report is   *)
(* built.                                                                  *)
(***************************************************************************)
NoReportBuilt ==
    /\ requested_typefaces = <<>>
    /\ requested_faces = <<>>
    /\ requested_theme_tokens = <<>>
    /\ requested_resolved = <<>>
    /\ unknown_requested = <<>>

EmptySlideSkippedMalformedAborts ==
    /\ pc = "aborted" => PartAt(slide_pos).kind = "malformed" /\ NoReportBuilt
    /\ pc = "done" =>
          /\ \A n \in SlideParts : pkg.zf[n].kind # "malformed"
          /\ ReportCoversReadableSlides
    /\ \A tf \in SeqRange(ScannedLatins) \cup DOMAIN requested_counts_raw :
          CounterGet(requested_counts_raw, tf) =
             IF NonEmpty(tf) THEN Occurrences(ScannedLatins, tf) ELSE 0
    /\ \A k \in 1..Len(slide_entries) :
          (k < slide_pos /\ pc # "start") => PartAt(k).kind # "malformed"

\* The report is built although the first slide part listed is empty, with
\* the requests and paragraphs of a later part in it.
EmptySlideSkippedWitness ==
    /\ pc = "done"
    /\ Len(slide_entries) >= 2
    /\ PartAt(1).kind = "empty"
    /\ PartAt(2).kind = "xml"
    /\ DOMAIN requested_counts_raw # {}
    /\ missing_paragraphs >= 1

(***************************************************************************)
(* C10: whatever the order in which the slide parts of a package are       *)
(* processed, the report holds the same request counters (raw, faces,      *)
(* tokens, resolved, each sorted by (-count, key)), missing run and        *)
(* paragraph counts, unsupported-style counts and unknown_requested: each  *)
(* is the sum over the slide parts, which no order enters.                 *)
(***************************************************************************)
RunsInPackage(Test(_, _)) ==
    SumOver(WellFormedSlides,
            [n \in WellFormedSlides |->
               LET ps == SlideParagraphs(pkg.zf[n])
               IN SumOver(1..Len(ps),
                          [j \in 1..Len(ps) |->
                             Cardinality({k \in 1..Len(ps[j].p.runs) :
                                            Test(ps[j].p.runs[k], ps[j].p)})])])

ResolvedInPackage(n) ==
    (IF IsLiteralFace(n) THEN RequestsInPackage(n) ELSE 0)
    + (IF MinorLatin = n THEN RequestsInPackage(TokMinor) ELSE 0)
    + (IF MajorLatin = n THEN RequestsInPackage(TokMajor) ELSE 0)

\* items is the mapping count over keys, in the order of (-count, key).
IsSortedDictOf(items, keys, count(_)) ==
    /\ DictKeys(items) = {k \in keys : count(k) > 0}
    /\ \A j \in 1..Len(items) : items[j][2] = count(items[j][1])
    /\ \A i, j \in 1..Len(items) :
          i < j => \/ items[i][2] > items[j][2]
                   \/ items[i][2] = items[j][2] /\ StrLess(items[i][1], items[j][1])

StyleKeys == {x \in AllRequested : NonEmpty(x)} \X StyleNames

ReportIndependentOfSlideOrder ==
    pc = "done" =>
        LET names == {x \in AllRequested \cup {MinorLatin, MajorLatin} : NonEmpty(x)}
        IN /\ IsSortedDictOf(requested_typefaces, names, RequestsInPackage)
           /\ IsSortedDictOf(requested_faces, names,
                             LAMBDA k : IF IsLiteralFace(k) THEN RequestsInPackage(k) ELSE 0)
           /\ IsSortedDictOf(requested_theme_tokens, names,
                             LAMBDA k : IF IsThemeToken(k) THEN RequestsInPackage(k) ELSE 0)
           /\ IsSortedDictOf(requested_resolved, names, ResolvedInPackage)
           /\ missing_runs = RunsInPackage(LAMBDA r, p : ~NonEmpty(r.tf) /\ ~Covered(p))
           /\ missing_runs_with_text =
                 RunsInPackage(LAMBDA r, p : ~NonEmpty(r.tf) /\ ~Covered(p) /\ NonEmpty(r.t))
           /\ missing_paragraphs = ParagraphsInPackage(LAMBDA p : ~Covered(p))
           /\ missing_paragraphs_empty =
                 ParagraphsInPackage(LAMBDA p : ~Covered(p) /\ HasNoRunsNorText(p))
           /\ missing_paragraphs_nonempty =
                 ParagraphsInPackage(LAMBDA p : ~Covered(p) /\ ~HasNoRunsNorText(p))
           /\ DOMAIN unsupported_style_counts \subseteq StyleKeys
           /\ \A key \in StyleKeys :
                 CounterGet(unsupported_style_counts, key) =
                    RunsInPackage(LAMBDA r, p : /\ r.tf = key[1]
                                                /\ StyleRequiredBy(r) = key[2]
                                                /\ MustViolate(r))
           /\ SeqRange(unknown_requested) = {x \in AllRequested : IsLiteralFace(x)} \ EmbeddedNames
           /\ \A i, j \in 1..Len(unknown_requested) :
                 i < j => StrLess(unknown_requested[i], unknown_requested[j])

\* The report is built from at least two slide parts taken in another
\* order than the listing's, both of which request a typeface.
OtherOrderWitness ==
    /\ pc = "done"
    /\ Len(slide_entries) >= 2
    /\ slide_entries # IterSlideEntries(pkg.zf)
    /\ \A k \in 1..2 : PartAt(k).kind = "xml" /\ SlideLatins(PartAt(k)) # <<>>
    /\ SlideLatins(PartAt(1)) # SlideLatins(PartAt(2))
    /\ \E k \in DOMAIN requested_counts_raw : requested_counts_raw[k] >= 2
    /\ missing_paragraphs >= 1

(***************************************************************************)
(* C11: a paragraph with zero runs and no default/end typeface is counted  *)
(* in missing_paragraphs_empty and gets no location record; a record is    *)
(* appended exactly when a paragraph is classified missing-nonempty, so in *)
(* every state missing_paragraph_locations holds as many records as        *)
(* missing_paragraphs_nonempty counts: the records of the scanned          *)
(* uncovered paragraphs that have a run, in scan order.                    *)
(***************************************************************************)
IsMissingNonEmpty(sp) == ~Covered(sp.e.p) /\ Len(sp.e.p.runs) > 0
IsMissingEmpty(sp) == ~Covered(sp.e.p) /\ Len(sp.e.p.runs) = 0
RecordedParagraphs == SelectSeq(ScannedParagraphs, IsMissingNonEmpty)

LocationsCountNonEmpty ==
    /\ Len(missing_paragraph_locations) = missing_paragraphs_nonempty
    /\ Len(missing_paragraph_locations) = Len(RecordedParagraphs)
    /\ missing_paragraphs_empty = Len(SelectSeq(ScannedParagraphs, IsMissingEmpty))
    /\ \A k \in 1..Len(RecordedParagraphs) :
          LET loc == missing_paragraph_locations[k]
              sp == RecordedParagraphs[k]
          IN /\ loc.slide_file = sp.slide
             /\ loc.shape_index = sp.e.shape_idx
             /\ loc.paragraph_index = sp.e.p_idx
             /\ loc.run_count = Len(sp.e.p.runs)
             /\ loc.has_runs
             /\ ~loc.has_defRPr_latin /\ ~loc.has_endParaRPr_latin

\* An uncovered paragraph without runs has been scanned after an uncovered
\* one with a run: one record, two missing paragraphs.
LocationsWitness ==
    /\ pc = "paragraphs"
    /\ missing_paragraphs_empty >= 1
    /\ Len(missing_paragraph_locations) >= 1
    /\ Len(ScannedParagraphs) >= 2
    /\ IsMissingEmpty(ScannedParagraphs[Len(ScannedParagraphs)])

(***************************************************************************)
(* C12: the command-line run completes with exit code 0 exactly when the   *)
(* report's unknown_requested is empty and with exit code 2 otherwise; a   *)
(* slide requesting a literal face that is neither embedded nor a theme    *)
(* token makes the exit code 2.  No exit code is returned before the       *)
(* report is built.                                                        *)
(***************************************************************************)
UnembeddedFaceRequested ==
    \E k \in 1..Len(ScannedLatins) :
       IsLiteralFace(ScannedLatins[k]) /\ ScannedLatins[k] \notin EmbeddedNames

ExitCodeSignalsUnknown ==
    /\ pc # "returned" => exit_code = -1
    /\ pc = "returned" =>
          /\ exit_code \in {0, 2}
          /\ exit_code = 0 <=> unknown_requested = <<>>
          /\ exit_code = 2 <=> unknown_requested # <<>>
          /\ UnembeddedFaceRequested => exit_code = 2
          /\ exit_code = 2 => UnembeddedFaceRequested

\* main has returned 2 on a package whose slides request "Comic Sans",
\* which the manifest does not embed, next to a theme token.
ExitCodeWitness ==
    /\ pc = "returned"
    /\ exit_code = 2
    /\ ComicSans \in SeqRange(unknown_requested)
    /\ \E k \in 1..Len(ScannedLatins) : IsThemeToken(ScannedLatins[k])

\* main has returned 0 although the slides request typefaces.
ExitCodeZeroWitness ==
    /\ pc = "returned"
    /\ exit_code = 0
    /\ ScannedLatins # <<>>

(***************************************************************************)
(* C13: on every blob the name sniffer (candidate extraction, then the     *)
(* final filter) goes on to its return without raising; it returns at most *)
(* 10 strings, each made only of printable ASCII characters (32-126) taken *)
(* from consecutive accepted byte pairs (high byte zero) of the blob, of   *)
(* length 3 to 40, with at least one alphabetic character; no more than 20 *)
(* candidates are collected and the scan stops at the 20th; the result is  *)
(* empty when the blob holds no such candidate.                            *)
(***************************************************************************)
PairCount == Len(data) \div 2
PairLow(j) == data[2 * j - 1]
PairHigh(j) == data[2 * j]
IsAcceptedPair(j) == PairHigh(j) = 0 /\ PairLow(j) \in 32..126
IsLetter(c) == c \in 65..90 \/ c \in 97..122

\* str is spelled by the pairs j, j+1, ... of the blob, all of them accepted.
OccursAt(str, j) ==
    /\ j + Len(str) - 1 <= PairCount
    /\ \A k \in 1..Len(str) : IsAcceptedPair(j + k - 1) /\ PairLow(j + k - 1) = str[k]

IsNameCandidate(str) ==
    /\ Len(str) >= 3
    /\ Len(str) <= 40
    /\ \A k \in 1..Len(str) : str[k] \in 32..126
    /\ \E k \in 1..Len(str) : IsLetter(str[k])
    /\ \E j \in 1..PairCount : OccursAt(str, j)

\* Some 3 to 40 consecutive accepted pairs of the blob hold a letter.
BlobHoldsCandidate ==
    \E j \in 1..PairCount, n \in 3..40 :
       /\ j + n - 1 <= PairCount
       /\ \A k \in j..(j + n - 1) : IsAcceptedPair(k)
       /\ \E k \in j..(j + n - 1) : IsLetter(PairLow(k))

SnifferReturnsNames ==
    /\ sn_pc \in {"scan", "tail", "filter", "done"}
    /\ sn_pc # "done" => ENABLED NextSniffer
    /\ sn_i <= Len(data)
    /\ Len(strings) <= 20
    /\ sn_pc = "scan" => Len(strings) < 20
    /\ sn_pc = "done" =>
          /\ Len(utf16_strings) <= 10
          /\ \A k \in 1..Len(utf16_strings) : IsNameCandidate(utf16_strings[k])
          /\ ~BlobHoldsCandidate => utf16_strings = <<>>

\* The scan has stopped at its 20th candidate with bytes left, more than
\* 10 distinct strings went to the filter, and it returned 10 of them.
SnifferWitness ==
    /\ sn_pc = "done"
    /\ Len(strings) = 20
    /\ sn_i + 1 < Len(data)
    /\ Len(extracted) > 10
    /\ Len(utf16_strings) = 10

\* The sniffer has returned nothing from a blob whose only candidates are
\* too long or without a letter.
SnifferEmptyWitness ==
    /\ sn_pc = "done"
    /\ utf16_strings = <<>>
    /\ extracted # <<>>
    /\ \E k \in 1..Len(extracted) : Len(extracted[k]) > 40

(***************************************************************************)
(* C14: across any sequence of ensure_ready / search_icons calls on one    *)
(* IconFinderService instance the collection initialization is attempted   *)
(* at most once: after a successful attempt every later ensure_ready       *)
(* returns True without initializing again; after a failed attempt the     *)
(* error is latched and every later ensure_ready returns False without a   *)
(* new attempt, so that search_icons returns an empty list from then on; a *)
(* disabled service never attempts the initialization.                     *)
(***************************************************************************)
AttemptedAt(k) == calls[k].attempted
LaterCalls(k) == (k + 1)..Len(calls)

InitializationAttemptedOnce ==
    /\ init_attempts <= 1
    /\ init_attempts = Cardinality({k \in 1..Len(calls) : AttemptedAt(k)})
    /\ disabled => init_attempts = 0 /\ \A k \in 1..Len(calls) : ~calls[k].ready
    /\ init_error # "None" <=> \E k \in 1..Len(calls) : AttemptedAt(k) /\ ~calls[k].ready
    /\ initialized <=> \E k \in 1..Len(calls) : AttemptedAt(k) /\ calls[k].ready
    /\ \A k \in 1..Len(calls) :
          AttemptedAt(k) =>
             \A j \in LaterCalls(k) :
                /\ ~AttemptedAt(j)
                /\ calls[j].ready = calls[k].ready
                /\ ~calls[k].ready => calls[j].result = <<>>

\* A first call failed to initialize; an ensure_ready and a search_icons
\* followed it.
FailedAttemptWitness ==
    /\ Len(calls) >= 3
    /\ AttemptedAt(1) /\ ~calls[1].ready
    /\ \E j, k \in LaterCalls(1) :
          calls[j].op = "ensure_ready" /\ calls[k].op = "search_icons"

\* A search initialized the collection and a later search returned paths.
ReadyWitness ==
    /\ Len(calls) >= 2
    /\ AttemptedAt(1) /\ calls[1].ready /\ calls[1].op = "search_icons"
    /\ \E j \in LaterCalls(1) : calls[j].result # <<>>


=============================================================================
